---- MODULE Spec2Model ----
(***************************************************************************)
(* Vector-memory adapter layer of EndogenAI (shared/vector-store/python):  *)
(* the embedding pipeline (EmbeddingClient), the adapter contract          *)
(* (VectorStoreAdapter) and the Qdrant backend adapter (QdrantAdapter).    *)
(*                                                                         *)
(* Every coroutine is cut at its suspension points (the awaits on the      *)
(* embedding provider and on the backend); the code between two            *)
(* suspension points is one atomic action.                                 *)
(***************************************************************************)
EXTENDS Integers, Sequences, FiniteSets, TLC

VARIABLES
    cfg,          \* EmbeddingConfig of the adapter / pipeline (frozen)
    http,         \* EmbeddingClient._http is not None
    httpLive,     \* httpx.AsyncClient objects created and not yet closed
    client,       \* QdrantAdapter._client: "none", "open", "closed"
    vector_size,  \* QdrantAdapter._vector_size: <<>> (None) or <<n>>
    colls,        \* backend: names of the existing collections
    csize,        \* backend: declared vector size of each collection
    points,       \* backend: points[c][id] = <<>> or <<[payload, vector]>>
    pc,           \* per task: position of its coroutine
    op,           \* per task: the call in flight and its arguments
    em,           \* per task: state of its EmbeddingClient.embed call
    ret,          \* per task: outcome handed to the caller
    obs           \* per task: what an observer of the call in flight has seen

vars == <<cfg, http, httpLive, client, vector_size, colls, csize,
          points, pc, op, em, ret, obs>>

pipeVars    == <<http, httpLive>>
adapterVars == <<client, vector_size>>
backendVars == <<colls, csize, points>>

-----------------------------------------------------------------------------
(* Bounds of the model *)

MaxTexts    == 3   \* longest text list handed to embed directly
MaxBatch    == 2   \* largest configured batch_size explored
ProviderDim == 2   \* length of the vectors the provider returns
MaxLive     == 2   \* cap on simultaneously unclosed client objects
MaxItems    == 2   \* longest item list of an upsert, id list of a delete
MaxResults  == 2   \* largest n_results of a query

(* Program constants *)

MaxAttempts == 3   \* stop_after_attempt(3)

Tasks    == {1, 2}
Names    == {"brain.a", "brain.b"}
Ids      == {"i1", "i2"}
Contents == {"t1", "t2"}
PROBE    == "probe"
Texts    == Contents \cup {PROBE}

Providers == {"ollama", "openai"}
MODEL     == "nomic-embed-text"

None      == <<>>
Some(x)   == <<x>>
IsNone(o) == o = <<>>
Get(o)    == o[1]

-----------------------------------------------------------------------------
(* Errors *)

NoError == [kind |-> "none", origin |-> "", retryable |-> FALSE, what |-> ""]

\* EmbeddingError(message, provider=..., retryable=...)
EmbeddingError(provider, retryable, what) ==
    [kind |-> "EmbeddingError", origin |-> provider, retryable |-> retryable,
     what |-> what]

\* AdapterError(message, backend=..., retryable=...)
AdapterError(backend, retryable, what) ==
    [kind |-> "AdapterError", origin |-> backend, retryable |-> retryable,
     what |-> what]

\* any other exception class: it has no provider/backend/retryable attribute
OtherError(class, what) ==
    [kind |-> class, origin |-> "", retryable |-> FALSE, what |-> what]

-----------------------------------------------------------------------------
(* The embedding provider (external): what it can answer to one batch *)

\* the vector the provider computes for a text
Vec(text) == [i \in 1..ProviderDim |-> <<text, i>>]

RECURSIVE Perms(_)
Perms(S) ==
    IF S = {} THEN {<<>>}
    ELSE UNION {{<<x>> \o p : p \in Perms(S \ {x})} : x \in S}

\* {"data": [{"index": i, "embedding": v}, ...]} in the order `order`
IndexedData(batch, order) ==
    [j \in 1..Len(order) |->
        [index |-> order[j] - 1, embedding |-> Vec(batch[order[j]])]]

FailureResponses ==
    {[status |-> 0,   kind |-> "neterr", payload |-> <<>>],
     [status |-> 400, kind |-> "status", payload |-> <<>>],
     [status |-> 503, kind |-> "status", payload |-> <<>>],
     [status |-> 200, kind |-> "nokey",  payload |-> <<>>]}

OllamaResponses(batch) ==
    FailureResponses
    \cup {[status |-> 200, kind |-> "embeddings",
           payload |-> [j \in 1..Len(batch) |-> Vec(batch[j])]],
          [status |-> 200, kind |-> "embeddings", payload |-> <<>>]}
    \cup (IF Len(batch) = 1
          THEN {[status |-> 200, kind |-> "embedding", payload |-> Vec(batch[1])]}
          ELSE {})

OpenAIResponses(batch) ==
    FailureResponses
    \cup {[status |-> 200, kind |-> "data", payload |-> IndexedData(batch, o)] :
            o \in Perms(1..Len(batch))}
    \cup {[status |-> 200, kind |-> "data", payload |-> <<>>]}

ProviderResponses(provider, batch) ==
    IF provider = "ollama" THEN OllamaResponses(batch) ELSE OpenAIResponses(batch)

-----------------------------------------------------------------------------
(* EmbeddingClient: pure parts *)

Min(a, b) == IF a < b THEN a ELSE b

\* an embed that sends all its texts in one batch
BatchesWhole(texts, batch_size) == <<texts>>

\* [texts[i : i + batch_size] for i in range(0, len(texts), batch_size)]
Batches(texts, batch_size) ==
    LET n      == Len(texts)
        starts == {i \in 0..(n - 1) : i % batch_size = 0}
    IN  [j \in 1..Cardinality(starts) |->
            SubSeq(texts, (j - 1) * batch_size + 1,
                   Min((j - 1) * batch_size + batch_size, n))]

\* sorted(data["data"], key=lambda x: x["index"]): stable insertion sort
RECURSIVE InsertByIndex(_, _)
InsertByIndex(x, sorted) ==
    IF sorted = <<>> THEN <<x>>
    ELSE IF x.index < Head(sorted).index THEN <<x>> \o sorted
    ELSE <<Head(sorted)>> \o InsertByIndex(x, Tail(sorted))

\* an indexed answer taken in the order in which it arrived
SortedByIndexAsReceived(data) == data

RECURSIVE SortedByIndex(_)
SortedByIndex(data) ==
    IF data = <<>> THEN <<>>
    ELSE InsertByIndex(data[Len(data)], SortedByIndex(SubSeq(data, 1, Len(data) - 1)))

\* str(self._config.provider) of a (str, Enum) member
ProviderStr(provider) ==
    IF provider = "openai" THEN "EmbeddingProvider.OPENAI" ELSE "EmbeddingProvider.OLLAMA"

Raised(err)    == [ok |-> FALSE, vectors |-> <<>>, err |-> err]
Returned(vecs) == [ok |-> TRUE, vectors |-> vecs, err |-> NoError]

\* the exception httpx raises when the provider cannot be reached or times out
TransportError == OtherError("httpx.TransportError", "post")

\* _embed_ollama, from the response of the POST on
EmbedOllama(resp) ==
    IF resp.kind = "neterr" THEN Raised(TransportError)
    ELSE IF resp.status # 200
        THEN Raised(EmbeddingError("ollama", resp.status >= 500, "http_status"))
    ELSE LET embeddings ==
                 IF resp.kind \in {"embeddings", "embedding"} THEN resp.payload ELSE <<>>
         IN  IF embeddings = <<>>
                 THEN Raised(EmbeddingError("ollama", FALSE, "empty"))
             ELSE IF resp.kind = "embedding"     \* isinstance(embeddings[0], float)
                 THEN Returned(<<embeddings>>)
             ELSE Returned(embeddings)

\* _embed_openai_compatible, from the response of the POST on
EmbedOpenAICompatible(provider, resp) ==
    IF resp.kind = "neterr" THEN Raised(TransportError)
    ELSE IF resp.status # 200
        THEN Raised(EmbeddingError(ProviderStr(provider), resp.status >= 500, "http_status"))
    ELSE IF resp.kind # "data" THEN Raised(OtherError("KeyError", "data"))
    ELSE LET items == SortedByIndex(resp.payload)
         IN  Returned([j \in 1..Len(items) |-> items[j].embedding])

\* _embed_batch: dispatch on the provider
EmbedBatchBody(provider, resp) ==
    IF provider = "ollama" THEN EmbedOllama(resp)
    ELSE EmbedOpenAICompatible(provider, resp)

-----------------------------------------------------------------------------
(* EmbeddingClient.embed as a state machine *)

\* k: the batch being embedded; attempt: the attempt number tenacity is at;
\* posts: POSTs issued for batch k; oks: attempts that returned vectors;
\* clean: no attempt has failed so far; lastErr: what the last failed attempt
\* of batch k raised
NoEmbed ==
    [st |-> "off", texts |-> <<>>, batches |-> <<>>, k |-> 0, attempt |-> 0,
     posts |-> 0, oks |-> 0, clean |-> TRUE, acc |-> <<>>, lastErr |-> NoError]

\* a retry loop that never gives up
ShouldRetryAlways(attempt, err) == TRUE

\* tenacity stop_after_attempt(MaxAttempts) with the default retry predicate
\* (every Exception): a failed attempt is retried while fewer than MaxAttempts
\* attempts were made, whatever the exception
ShouldRetry(attempt, err) == attempt < MaxAttempts

\* an embed loop that gives a failed batch up and goes on to the next one
AttemptFailedSkips(e, err) ==
    IF e.k < Len(e.batches)
    THEN [e EXCEPT !.st = "wait", !.k = @ + 1, !.attempt = 1, !.posts = 1,
                   !.lastErr = err, !.clean = FALSE]
    ELSE [e EXCEPT !.st = "raise", !.lastErr = err, !.clean = FALSE]

\* an attempt of _embed_batch raised err
AttemptFailed(e, err) ==
    IF ShouldRetry(e.attempt, err)
    THEN [e EXCEPT !.st = "sleep", !.attempt = @ + 1, !.lastErr = err, !.clean = FALSE]
    ELSE [e EXCEPT !.st = "raise", !.lastErr = err, !.clean = FALSE]

\* an attempt of _embed_batch from its entry to its POST
AttemptBegin(e, httpOpen) ==
    IF httpOpen
    THEN [e EXCEPT !.st = "wait", !.posts = @ + 1]
    ELSE AttemptFailed(e, OtherError("AssertionError", "http"))

\* an attempt returned `vectors`: results.extend(vectors), then the next batch
AttemptReturned(e, vectors, httpOpen) ==
    LET e1 == [e EXCEPT !.acc = @ \o vectors, !.oks = @ + 1, !.lastErr = NoError]
    IN  IF e.k = Len(e.batches)
        THEN [e1 EXCEPT !.st = "return"]
        ELSE AttemptBegin([e1 EXCEPT !.k = @ + 1, !.attempt = 1, !.posts = 0], httpOpen)

\* embed() without its empty-input guard
EmbedIsNoopNever(texts) == FALSE

\* embed(): `if not texts: return []`
EmbedIsNoop(texts) == texts = <<>>

\* embed() past the empty-input guard, from the implicit connect (which has
\* made the client available) to the first POST, or to the return when there
\* is no batch
EmbedBegin(texts, batch_size) ==
    LET bs == Batches(texts, batch_size)
        e0 == [NoEmbed EXCEPT !.texts = texts, !.batches = bs, !.k = 1, !.attempt = 1]
    IN  IF bs = <<>> THEN [e0 EXCEPT !.st = "return"] ELSE AttemptBegin(e0, TRUE)

\* the response to the POST in flight arrives
EmbedOnResponse(e, provider, resp, httpOpen) ==
    LET r == EmbedBatchBody(provider, resp)
    IN  IF r.ok THEN AttemptReturned(e, r.vectors, httpOpen)
        ELSE AttemptFailed(e, r.err)

\* an embed that hands over the vectors gathered so far when a batch has failed
EmbedOutcomePartial(e) == Returned(e.acc)

\* what embed hands to its caller: the vectors at the return, else the exception
EmbedOutcome(e) ==
    IF e.st = "return" THEN Returned(e.acc) ELSE Raised(e.lastErr)

-----------------------------------------------------------------------------
(* Memory items, payloads and stored points *)

\* the values of MemoryItem.expires_at explored: unset, or a time already past
Expiries == {None, Some("2000-01-01T00:00:00Z")}

\* MemoryItem as a caller builds it: embedding and embedding_model unset
MemoryItem(id, collection_name, content, expires_at) ==
    [id |-> id, collection_name |-> collection_name, content |-> content,
     expires_at |-> expires_at, embedding |-> None, embedding_model |-> None]

\* a MemoryItem with expires_at left at its default
NewItem(id, collection_name, content) ==
    MemoryItem(id, collection_name, content, None)

\* a payload that leaves expires_at out whatever its value
ItemToPayloadLean(item) ==
    [collection_name |-> item.collection_name, content |-> item.content]

\* _item_to_payload: model_dump(exclude={"embedding", "id"}) without the None values
ItemToPayload(item) ==
    LET dump == [collection_name |-> Some(item.collection_name),
                 content         |-> Some(item.content),
                 expires_at      |-> item.expires_at,
                 embedding_model |-> item.embedding_model]
        keys == {k \in DOMAIN dump : dump[k] # None}
    IN  [k \in keys |-> Get(dump[k])]

PayloadGet(payload, key, default) ==
    IF key \in DOMAIN payload THEN payload[key] ELSE default

\* _payload_to_item
PayloadToItem(point_id, payload, vector) ==
    [id              |-> point_id,
     collection_name |-> PayloadGet(payload, "collection_name", "brain.unknown"),
     content         |-> PayloadGet(payload, "content", ""),
     expires_at      |-> IF "expires_at" \in DOMAIN payload
                         THEN Some(payload["expires_at"]) ELSE None,
     embedding       |-> Some(vector),
     embedding_model |-> IF "embedding_model" \in DOMAIN payload
                         THEN Some(payload["embedding_model"]) ELSE None]

\* upsert: `item.embedding = vector; item.embedding_model = model_name`
AttachEmbedding(item, vector, model_name) ==
    [item EXCEPT !.embedding = Some(vector), !.embedding_model = Some(model_name)]

\* an upsert that pairs the items with the vectors in reverse order
AttachAllReversed(items, vectors, model_name) ==
    [j \in 1..Len(items) |->
        IF j <= Len(vectors)
        THEN AttachEmbedding(items[j], vectors[Len(vectors) + 1 - j], model_name)
        ELSE items[j]]

\* an upsert that writes the items without attaching anything to them
AttachAllNone(items, vectors, model_name) == items

\* upsert: the loop over zip(request.items, vectors, strict=True); the body has
\* run for the common prefix when zip raises ValueError on unequal lengths
AttachAll(items, vectors, model_name) ==
    [j \in 1..Len(items) |->
        IF j <= Len(vectors) THEN AttachEmbedding(items[j], vectors[j], model_name)
        ELSE items[j]]

\* PointStruct(id=item.id, vector={"content": vector}, payload=_item_to_payload(item))
PointOf(item) == [payload |-> ItemToPayload(item), vector |-> Get(item.embedding)]

\* ids = [item.id for item in request.items]
IdsOf(items) == [j \in 1..Len(items) |-> items[j].id]

NoPoints == [i \in Ids |-> None]

\* a backend that merges the payload of a written point into the stored one
MergedInto(old, new) ==
    IF old = None THEN Some(new)
    ELSE Some([new EXCEPT !.payload =
                [k \in DOMAIN Get(old).payload \cup DOMAIN new.payload |->
                    IF k \in DOMAIN new.payload THEN new.payload[k]
                    ELSE Get(old).payload[k]]])

RECURSIVE StoreAllMerging(_, _, _)
StoreAllMerging(stored, ids, pts) ==
    IF ids = <<>> THEN stored
    ELSE StoreAllMerging([stored EXCEPT ![Head(ids)] = MergedInto(@, Head(pts))],
                         Tail(ids), Tail(pts))

\* backend: points of a collection after an upsert of `pts` (ids, points), in order
RECURSIVE StoreAll(_, _, _)
StoreAll(stored, ids, pts) ==
    IF ids = <<>> THEN stored
    ELSE StoreAll([stored EXCEPT ![Head(ids)] = Some(Head(pts))], Tail(ids), Tail(pts))

Range(seq) == {seq[j] : j \in 1..Len(seq)}

\* backend: points of a collection after deleting the points `ids`
RemoveAll(stored, ids) ==
    [i \in Ids |-> IF i \in Range(ids) THEN None ELSE stored[i]]

-----------------------------------------------------------------------------
(* Construction of the models: validation of collection names and contents *)

\* A candidate collection name is a sequence of symbols: "brain" stands for
\* the five letters of the namespace, the others for one character each.
Lower   == {"brain", "a"}
Digit   == {"1"}
Symbols == Lower \cup Digit \cup {".", "-", "A", "\n"}

MaxName == 4   \* longest candidate name, in symbols

CandidateNames == UNION {[1..m -> Symbols] : m \in 0..MaxName}

\* the text brain\.[a-z][a-z0-9-]* and nothing else
PatternBody(s) ==
    /\ Len(s) >= 3
    /\ s[1] = "brain" /\ s[2] = "."
    /\ s[3] \in Lower
    /\ \A j \in 4..Len(s) : s[j] \in Lower \cup Digit \cup {"-"}

\* COLLECTION_NAME_RE.match(v): Python's re, in which `$` matches at the end
\* of the string and also just before a newline that ends the string
CollectionNameReMatch(v) ==
    \/ PatternBody(v)
    \/ /\ Len(v) >= 1 /\ v[Len(v)] = "\n"
       /\ PatternBody(SubSeq(v, 1, Len(v) - 1))

\* Field(..., pattern=r"^brain\.[a-z][a-z0-9-]*$"): the constraint is checked
\* by pydantic-core's regex engine, in which `$` matches at the end only
PatternMatches(v) == PatternBody(v)

\* the contents a caller may hand to MemoryItem, the empty text among them
CandidateContents == {"", "t1"}

ModelKinds ==
    {"MemoryItem", "UpsertRequest", "QueryRequest", "DeleteRequest",
     "CreateCollectionRequest", "DropCollectionRequest"}

\* pydantic's ValidationError
ValidationError(what) == OtherError("ValidationError", what)

\* MemoryItem.content: `str = Field(..., description=...)`, any text
ContentValid(content) == TRUE

\* what construction of a model of kind `kind` raises for the collection name
\* `name` and the text `text` (content of the item, query_text of the query),
\* the other fields being valid; NoError when the model is built
Validate(kind, name, text) ==
    IF kind = "MemoryItem"
    THEN IF ~ContentValid(text) THEN ValidationError("content")
         ELSE IF ~CollectionNameReMatch(name) THEN ValidationError("collection_name")
         ELSE NoError
    ELSE IF ~PatternMatches(name) THEN ValidationError("collection_name")
    ELSE IF kind = "QueryRequest" /\ text = "" THEN ValidationError("query_text")
    ELSE NoError

\* the Memory Items that can be constructed, with the id `id`
ConstructibleItems(id) ==
    {MemoryItem(id, n, x, None) :
        n \in {v \in CandidateNames : Validate("MemoryItem", v, "t1") = NoError},
        x \in {y \in CandidateContents : Validate("MemoryItem", <<"brain", ".", "a">>, y) = NoError}}

-----------------------------------------------------------------------------
(* Per-task bookkeeping *)

NoOp  == [name |-> "none", coll |-> "", items |-> <<>>, ids |-> <<>>,
          text |-> "", n |-> 0, size |-> 0, where |-> None,
          where_document |-> None]
NoRet == [status |-> "none", value |-> <<>>, err |-> NoError]
NoObs == [client0 |-> "none", http0 |-> FALSE, live0 |-> 0, vs0 |-> None,
          existed |-> FALSE, pts0 |-> NoPoints, size0 |-> 0, items0 |-> <<>>,
          be |-> <<>>, creates |-> 0, life |-> <<>>]

Ok(value) == [status |-> "ok", value |-> value, err |-> NoError]
Err(err)  == [status |-> "error", value |-> <<>>, err |-> err]

\* what is observable when a task enters an operation on collection c:
\* client0, http0, live0, vs0: the adapter's and the pipeline's handles;
\* existed, pts0, size0: the collection in the backend; items0: the items
\* handed to upsert; be: the backend calls the operation has issued so far;
\* creates: the invocations of create_collection it has made; life: the
\* lifecycle calls a scoped acquisition has made
Snapshot(c) ==
    [client0 |-> client, http0 |-> http, live0 |-> httpLive, vs0 |-> vector_size,
     existed |-> c \in colls,
     pts0    |-> IF c \in Names THEN points[c] ELSE NoPoints,
     size0   |-> IF c \in Names THEN csize[c] ELSE 0,
     items0  |-> <<>>, be |-> <<>>, creates |-> 0, life |-> <<>>]

Task(t, p, o, e, r, b) ==
    /\ pc'  = [pc  EXCEPT ![t] = p]
    /\ op'  = [op  EXCEPT ![t] = o]
    /\ em'  = [em  EXCEPT ![t] = e]
    /\ ret' = [ret EXCEPT ![t] = r]
    /\ obs' = [obs EXCEPT ![t] = b]

Idle(t) == pc[t] = "idle"

\* the caller constructs a model: no I/O, the model or a ValidationError
Construct(t, kind, name, text) ==
    /\ Idle(t)
    /\ Task(t, "done", [NoOp EXCEPT !.name = kind, !.coll = name, !.text = text],
            NoEmbed,
            IF Validate(kind, name, text) = NoError THEN Ok(<<>>)
            ELSE Err(Validate(kind, name, text)),
            NoObs)
    /\ UNCHANGED <<cfg, pipeVars, adapterVars, backendVars>>

\* the backend call `call` is issued by the operation in flight
Issued(b, call) == [b EXCEPT !.be = Append(@, call)]

-----------------------------------------------------------------------------
(* EmbeddingClient: lifecycle and direct calls *)

\* EmbeddingClient.connect: a new httpx.AsyncClient replaces self._http
PipeConnectEffect ==
    /\ http' = TRUE
    /\ httpLive' = httpLive + 1

\* EmbeddingClient.close
PipeCloseEffect ==
    /\ http' = FALSE
    /\ httpLive' = IF http THEN httpLive - 1 ELSE httpLive

\* embed(): `if self._http is None: await self.connect()`
PipeImplicitConnect ==
    IF http THEN UNCHANGED pipeVars ELSE PipeConnectEffect

CanConnectPipe == httpLive < MaxLive
CanEmbed       == http \/ CanConnectPipe

PipeConnect(t) ==
    /\ Idle(t) /\ CanConnectPipe
    /\ PipeConnectEffect
    /\ Task(t, "done", [NoOp EXCEPT !.name = "pipe_connect"], NoEmbed, Ok(<<>>),
            Snapshot(""))
    /\ UNCHANGED <<cfg, adapterVars, backendVars>>

PipeClose(t) ==
    /\ Idle(t)
    /\ PipeCloseEffect
    /\ Task(t, "done", [NoOp EXCEPT !.name = "pipe_close"], NoEmbed, Ok(<<>>),
            Snapshot(""))
    /\ UNCHANGED <<cfg, adapterVars, backendVars>>

\* embed_one: `return vectors[0]`
First(vectors) ==
    IF vectors = <<>> THEN Err(OtherError("IndexError", "vectors[0]"))
    ELSE Ok(vectors[1])

\* upsert: embedding, attaching and the backend write, from the return of embed
\* to the backend upsert call
UpsertAfterEmbed(t, o, e, b) ==
    LET out   == EmbedOutcome(e)
        items == AttachAll(o.items, out.vectors, cfg.model)
    IN  /\ IF ~out.ok
           THEN Task(t, "done", o, e, Err(out.err), b)
           ELSE IF Len(out.vectors) # Len(o.items)
           THEN Task(t, "done", [o EXCEPT !.items = items], e,
                     Err(OtherError("ValueError", "zip")), b)
           ELSE Task(t, "be_upsert", [o EXCEPT !.items = items], e, NoRet,
                     Issued(b, "upsert"))
        /\ UNCHANGED vector_size

\* query: from the return of embed_one to the backend search call
QueryAfterEmbed(t, o, e, b) ==
    LET out == EmbedOutcome(e)
    IN  /\ IF ~out.ok
           THEN Task(t, "done", o, e, Err(out.err), b)
           ELSE IF First(out.vectors).status = "error"
           THEN Task(t, "done", o, e, First(out.vectors), b)
           ELSE Task(t, "be_search", o, e, NoRet, Issued(b, "search"))
        /\ UNCHANGED vector_size

\* _get_vector_size: `self._vector_size = len(probe)`, then back in
\* create_collection up to the backend create_collection call
CreateAfterProbe(t, o, e, b) ==
    LET out == EmbedOutcome(e)
    IN  IF ~out.ok
        THEN Task(t, "done", o, e, Err(out.err), b) /\ UNCHANGED vector_size
        ELSE IF First(out.vectors).status = "error"
        THEN Task(t, "done", o, e, First(out.vectors), b) /\ UNCHANGED vector_size
        ELSE /\ vector_size' = Some(Len(First(out.vectors).value))
             /\ Task(t, "be_create",
                     [o EXCEPT !.size = Len(First(out.vectors).value)], e, NoRet,
                     Issued(b, "create_collection"))

\* the caller of embed resumes when embed returns or raises (e.st is "return"
\* or "raise"); otherwise task t stays suspended inside embed
Proceed(t, o, e, b) ==
    IF e.st \in {"wait", "sleep"}
    THEN Task(t, "embed", o, e, NoRet, b) /\ UNCHANGED vector_size
    ELSE CASE o.name = "embed" ->
                /\ Task(t, "done", o, e,
                        IF EmbedOutcome(e).ok THEN Ok(EmbedOutcome(e).vectors)
                        ELSE Err(EmbedOutcome(e).err), b)
                /\ UNCHANGED vector_size
           [] o.name = "embed_one" ->
                /\ Task(t, "done", o, e,
                        IF EmbedOutcome(e).ok THEN First(EmbedOutcome(e).vectors)
                        ELSE Err(EmbedOutcome(e).err), b)
                /\ UNCHANGED vector_size
           [] o.name = "upsert" -> UpsertAfterEmbed(t, o, e, b)
           [] o.name = "query"  -> QueryAfterEmbed(t, o, e, b)
           [] o.name \in {"create", "ensure"} -> CreateAfterProbe(t, o, e, b)

\* embed(texts) called directly, up to its return or its first POST
EmbedCall(t, texts) ==
    /\ Idle(t)
    /\ EmbedIsNoop(texts) \/ CanEmbed
    /\ IF EmbedIsNoop(texts)
       THEN /\ Task(t, "done", [NoOp EXCEPT !.name = "embed"],
                    [NoEmbed EXCEPT !.st = "return"], Ok(<<>>), Snapshot(""))
            /\ UNCHANGED <<pipeVars, vector_size>>
       ELSE /\ PipeImplicitConnect
            /\ Proceed(t, [NoOp EXCEPT !.name = "embed"],
                       EmbedBegin(texts, cfg.batch_size), Snapshot(""))
    /\ UNCHANGED <<cfg, client, backendVars>>

\* embed_one(text): embed([text]), then vectors[0]
EmbedOneCall(t, text) ==
    /\ Idle(t) /\ CanEmbed
    /\ PipeImplicitConnect
    /\ Proceed(t, [NoOp EXCEPT !.name = "embed_one", !.text = text],
               EmbedBegin(<<text>>, cfg.batch_size), Snapshot(""))
    /\ UNCHANGED <<cfg, client, backendVars>>

\* the provider answers the POST of task t
ProviderAnswers(t, resp) ==
    /\ pc[t] = "embed" /\ em[t].st = "wait"
    /\ Proceed(t, op[t], EmbedOnResponse(em[t], cfg.provider, resp, http), obs[t])
    /\ UNCHANGED <<cfg, pipeVars, client, backendVars>>

\* the back-off sleep of tenacity ends: the next attempt of _embed_batch
BackoffEnds(t) ==
    /\ pc[t] = "embed" /\ em[t].st = "sleep"
    /\ Proceed(t, op[t], AttemptBegin(em[t], http), obs[t])
    /\ UNCHANGED <<cfg, pipeVars, client, backendVars>>

\* the caller takes the outcome of its call
Return(t) ==
    /\ pc[t] = "done"
    /\ Task(t, "idle", NoOp, NoEmbed, NoRet, NoObs)
    /\ UNCHANGED <<cfg, pipeVars, adapterVars, backendVars>>

-----------------------------------------------------------------------------
(* The Qdrant backend (external), as the adapter's client sees it *)

\* a closed AsyncQdrantClient refuses every call
BackendUp == client = "open"

Stored(c) == {i \in Ids : points[c][i] # None}

\* cosine similarity in percent between two provider vectors
RawCosine(u, v) == IF u = v THEN 100 ELSE -20

Hit(c, i, query_vector) ==
    [id |-> i, score |-> RawCosine(query_vector, Get(points[c][i]).vector),
     payload |-> Get(points[c][i]).payload, vector |-> Get(points[c][i]).vector]

\* backend: a point passes a filter when its payload holds, under the key of
\* every `must` condition, the value the condition matches; no filter, no test
Matches(payload, query_filter) ==
    \/ query_filter = None
    \/ \A j \in 1..Len(Get(query_filter).must) :
            LET cond == Get(query_filter).must[j]
            IN  /\ cond.key \in DOMAIN payload
                /\ payload[cond.key] = cond.match.value

\* the ids of the points of collection c that pass the filter
Matching(c, query_filter) ==
    {i \in Stored(c) : Matches(Get(points[c][i]).payload, query_filter)}

\* the rankings a filtered nearest-neighbour search may return: the `limit`
\* best points among those that pass the filter, best first, ties in any order
HitListsMatching(c, query_vector, limit, query_filter) ==
    {SubSeq(h, 1, Min(limit, Len(h))) :
        h \in {[j \in 1..Len(p) |-> Hit(c, p[j], query_vector)] :
                p \in {q \in Perms(Matching(c, query_filter)) :
                        \A j \in 1..(Len(q) - 1) :
                            Hit(c, q[j], query_vector).score
                                >= Hit(c, q[j + 1], query_vector).score}}}

\* the rankings of a search without a filter
HitLists(c, query_vector, limit) == HitListsMatching(c, query_vector, limit, None)

-----------------------------------------------------------------------------
(* QdrantAdapter: lifecycle *)

NotConnected == AdapterError("qdrant", FALSE, "not_connected")

\* _assert_connected passes
AssertConnected == client # "none"

\* QdrantAdapter.connect: the pipeline connects, a new backend client is held
ConnectEffect ==
    /\ PipeConnectEffect
    /\ client' = "open"

\* QdrantAdapter.close: the pipeline is closed and the backend client object is
\* closed, but self._client keeps referring to it (it is not reset to None)
CloseEffect ==
    /\ PipeCloseEffect
    /\ client' = IF client = "open" THEN "closed" ELSE client

\* QdrantAdapter.connect
Connect(t) ==
    /\ Idle(t) /\ CanConnectPipe
    /\ ConnectEffect
    /\ Task(t, "done", [NoOp EXCEPT !.name = "connect"], NoEmbed, Ok(<<>>),
            Snapshot(""))
    /\ UNCHANGED <<cfg, vector_size, backendVars>>

\* QdrantAdapter.close
Close(t) ==
    /\ Idle(t)
    /\ CloseEffect
    /\ Task(t, "done", [NoOp EXCEPT !.name = "close"], NoEmbed, Ok(<<>>),
            Snapshot(""))
    /\ UNCHANGED <<cfg, vector_size, backendVars>>

-----------------------------------------------------------------------------
(* The adapter as a scoped-acquisition object: `async with adapter:` *)

Caller == 1   \* the task of the sequential caller
Scope  == 2   \* the task slot that holds the state of the async with statement

\* an __aexit__ that leaves the adapter open when the body raised
ExitClosesUnlessRaised(exc) == exc = NoError

\* __aexit__(self, *_): the exception of the body is ignored, close() is awaited
ExitCloses(exc) == TRUE

\* __aenter__: `await self.connect(); return self`; the body starts
Enter ==
    /\ pc[Scope] \in {"idle", "exited"} /\ Idle(Caller) /\ CanConnectPipe
    /\ ConnectEffect
    /\ Task(Scope, "body", [NoOp EXCEPT !.name = "async with"], NoEmbed, NoRet,
            [Snapshot("") EXCEPT !.life = <<"connect">>])
    /\ UNCHANGED <<cfg, vector_size, backendVars>>

\* the body ends, between two calls or with the exception of a call that
\* failed or was cancelled; __aexit__ runs and the exception, if any, leaves
\* the statement
Exit ==
    LET raised == pc[Caller] = "done" /\ ret[Caller].status = "error"
        exc    == IF raised THEN ret[Caller].err ELSE NoError
    IN  /\ pc[Scope] = "body"
        /\ Idle(Caller) \/ raised
        /\ IF ExitCloses(exc) THEN CloseEffect ELSE UNCHANGED <<pipeVars, client>>
        /\ pc'  = [pc  EXCEPT ![Scope] = "exited", ![Caller] = "idle"]
        /\ op'  = [op  EXCEPT ![Caller] = NoOp]
        /\ em'  = [em  EXCEPT ![Caller] = NoEmbed]
        /\ ret' = [ret EXCEPT ![Scope] = IF raised THEN Err(exc) ELSE Ok(<<>>),
                              ![Caller] = NoRet]
        /\ obs' = [obs EXCEPT ![Scope].life =
                                  IF ExitCloses(exc) THEN Append(@, "close") ELSE @,
                              ![Caller] = NoObs]
        /\ UNCHANGED <<cfg, vector_size, backendVars>>

\* asyncio.CancelledError, raised at the await a cancelled task is suspended at
Cancelled == OtherError("CancelledError", "await")

\* task t is cancelled while suspended in a provider or backend call: the
\* CancelledError is a BaseException, so neither tenacity's retry nor the
\* adapter's `except Exception` handles it, and it leaves the operation
Cancel(t) ==
    /\ pc[t] \notin {"idle", "done"}
    /\ Task(t, "done", op[t],
            IF em[t].st = "off" THEN em[t]
            ELSE [em[t] EXCEPT !.st = "raise", !.lastErr = Cancelled],
            Err(Cancelled), obs[t])
    /\ UNCHANGED <<cfg, pipeVars, adapterVars, backendVars>>

-----------------------------------------------------------------------------
(* QdrantAdapter: operations, from the call to the first suspension *)

\* the operation raises at _assert_connected
FailNotConnected(t, o, c) ==
    /\ Task(t, "done", o, NoEmbed, Err(NotConnected),
            [Snapshot(c) EXCEPT !.items0 = o.items])
    /\ UNCHANGED <<pipeVars, vector_size>>

\* upsert(UpsertRequest(collection_name=c, items=items))
UpsertCall(t, c, items) ==
    LET o == [NoOp EXCEPT !.name = "upsert", !.coll = c, !.items = items]
    IN  /\ Idle(t)
        /\ IF ~AssertConnected THEN FailNotConnected(t, o, c)
           ELSE /\ CanEmbed
                /\ PipeImplicitConnect
                /\ Proceed(t, o,
                           EmbedBegin([j \in 1..Len(items) |-> items[j].content],
                                      cfg.batch_size),
                           [Snapshot(c) EXCEPT !.items0 = items])
        /\ UNCHANGED <<cfg, client, backendVars>>

\* query(QueryRequest(collection_name=c, query_text=text, n_results=n,
\* where=where, where_document=where_document)); `where` is None or the list
\* of the (key, value) pairs of the map, in the order of the map
QueryWhereCall(t, c, text, n, where, where_document) ==
    LET o == [NoOp EXCEPT !.name = "query", !.coll = c, !.text = text, !.n = n,
                          !.where = where, !.where_document = where_document]
    IN  /\ Idle(t)
        /\ IF ~AssertConnected THEN FailNotConnected(t, o, c)
           ELSE /\ CanEmbed
                /\ PipeImplicitConnect
                /\ Proceed(t, o, EmbedBegin(<<text>>, cfg.batch_size), Snapshot(c))
        /\ UNCHANGED <<cfg, client, backendVars>>

\* query(QueryRequest(collection_name=c, query_text=text, n_results=n))
QueryCall(t, c, text, n) == QueryWhereCall(t, c, text, n, None, None)

\* an operation whose first suspension is the backend call `call`
BackendFirst(t, o, c, p, call) ==
    /\ Idle(t)
    /\ IF ~AssertConnected THEN FailNotConnected(t, o, c)
       ELSE /\ Task(t, p, o, NoEmbed, NoRet, Issued(Snapshot(c), call))
            /\ UNCHANGED <<pipeVars, vector_size>>
    /\ UNCHANGED <<cfg, client, backendVars>>

\* delete(DeleteRequest(collection_name=c, ids=ids))
DeleteCall(t, c, ids) ==
    BackendFirst(t, [NoOp EXCEPT !.name = "delete", !.coll = c, !.ids = ids], c,
                 "be_delete", "delete")

\* one invocation of create_collection is counted
Invoked(b) == [b EXCEPT !.creates = @ + 1]

\* create_collection(CreateCollectionRequest(collection_name=c))
CreateCollectionCall(t, name, c) ==
    LET o == [NoOp EXCEPT !.name = name, !.coll = c]
    IN  /\ Idle(t)
        /\ IF ~AssertConnected
           THEN /\ Task(t, "done", o, NoEmbed, Err(NotConnected), Invoked(Snapshot(c)))
                /\ UNCHANGED <<pipeVars, vector_size>>
           ELSE /\ Task(t, "be_list", o, NoEmbed, NoRet,
                        Issued(Invoked(Snapshot(c)), "get_collections"))
                /\ UNCHANGED <<pipeVars, vector_size>>
        /\ UNCHANGED <<cfg, client, backendVars>>

CreateCall(t, c) == CreateCollectionCall(t, "create", c)

\* VectorStoreAdapter.ensure_collection(c): create_collection, then resp.created
EnsureCall(t, c) == CreateCollectionCall(t, "ensure", c)

\* drop_collection(DropCollectionRequest(collection_name=c))
DropCall(t, c) ==
    BackendFirst(t, [NoOp EXCEPT !.name = "drop", !.coll = c], c,
                 "be_list", "get_collections")

\* list_collections()
ListCall(t) ==
    BackendFirst(t, [NoOp EXCEPT !.name = "list"], "", "be_list", "get_collections")

-----------------------------------------------------------------------------
(* QdrantAdapter: operations, resumed by the backend's answers *)

\* an operation that lets the exception of the backend client through
BackendErrorRaw(retryable, what) == OtherError("Exception", what)

\* an adapter that flags every backend failure retryable
BackendErrorRetryable(retryable, what) == AdapterError("qdrant", TRUE, what)

\* except Exception as exc: raise AdapterError(..., backend="qdrant", retryable=...)
BackendError(retryable, what) == AdapterError("qdrant", retryable, what)

CreateCollectionResponse(c, created) == [collection_name |-> c, created |-> created]
DropCollectionResponse(c, dropped)   == [collection_name |-> c, dropped |-> dropped]

\* an ensure_collection that reports a creation whatever the response says
EnsureResultAlways(resp) == TRUE

\* ensure_collection: `return resp.created`
EnsureResult(resp) == resp.created

\* what the caller of create_collection, or of ensure_collection, gets
CreateReturns(o, created) ==
    IF o.name = "ensure" THEN Ok(EnsureResult(CreateCollectionResponse(o.coll, created)))
    ELSE Ok(CreateCollectionResponse(o.coll, created))

\* a create_collection that never finds the name among the existing ones
AlreadyExistsNever(c, existing_names) == FALSE

\* `request.collection_name in existing_names`
AlreadyExists(c, existing_names) == c \in existing_names

\* create_collection after a successful listing, up to its return or its next
\* suspension (the probe of _get_vector_size, or the backend create call)
CreateAfterListing(t, existing_names) ==
    LET o == op[t]
    IN  IF AlreadyExists(o.coll, existing_names)
        THEN /\ Task(t, "done", o, em[t], CreateReturns(o, FALSE), obs[t])
             /\ UNCHANGED <<pipeVars, vector_size>>
        ELSE IF vector_size = None
        THEN /\ CanEmbed
             /\ PipeImplicitConnect
             /\ Proceed(t, o, EmbedBegin(<<PROBE>>, cfg.batch_size), obs[t])
        ELSE /\ Task(t, "be_create", [o EXCEPT !.size = Get(vector_size)], em[t],
                     NoRet, Issued(obs[t], "create_collection"))
             /\ UNCHANGED <<pipeVars, vector_size>>

\* a drop_collection that never finds the name missing
NotExistingNever(c, existing_names) == FALSE

\* `request.collection_name not in existing_names`
NotExisting(c, existing_names) == c \notin existing_names

\* drop_collection after a successful listing
DropAfterListing(t, existing_names) ==
    LET o == op[t]
    IN  /\ IF NotExisting(o.coll, existing_names)
           THEN Task(t, "done", o, em[t], Ok(DropCollectionResponse(o.coll, FALSE)),
                     obs[t])
           ELSE Task(t, "be_dropcoll", o, em[t], NoRet,
                     Issued(obs[t], "delete_collection"))
        /\ UNCHANGED <<pipeVars, vector_size>>

\* CollectionInfo(name=c.name): count left at its default
CollectionInfo(name) == [name |-> name, count |-> None]

\* a list_collections that reports no collection
ListCollectionsResponseEmpty(existing_names) == {}

\* list_collections: one CollectionInfo per collection the backend listed
ListCollectionsResponse(existing_names) ==
    {CollectionInfo(c) : c \in existing_names}

\* client.get_collections() answers task t (ok), or raises
ListingAnswers(t, ok) ==
    /\ pc[t] = "be_list"
    /\ ok => BackendUp
    /\ IF ~ok
       THEN /\ Task(t, "done", op[t], em[t],
                    Err(BackendError(TRUE, "get_collections")), obs[t])
            /\ UNCHANGED <<pipeVars, vector_size>>
       ELSE CASE op[t].name = "list" ->
                    /\ Task(t, "done", op[t], em[t],
                            Ok(ListCollectionsResponse(colls)), obs[t])
                    /\ UNCHANGED <<pipeVars, vector_size>>
              [] op[t].name = "drop" -> DropAfterListing(t, colls)
              [] op[t].name \in {"create", "ensure"} -> CreateAfterListing(t, colls)
    /\ UNCHANGED <<cfg, client, backendVars>>

\* client.create_collection(...) answers task t (ok), or raises
CreateAnswers(t, ok) ==
    LET o == op[t]
    IN  /\ pc[t] = "be_create"
        /\ ok => (BackendUp /\ o.coll \notin colls)
        /\ IF ok
           THEN /\ colls'  = colls \cup {o.coll}
                /\ csize'  = [csize EXCEPT ![o.coll] = o.size]
                /\ points' = [points EXCEPT ![o.coll] = NoPoints]
                /\ Task(t, "done", o, em[t], CreateReturns(o, TRUE), obs[t])
           ELSE /\ Task(t, "done", o, em[t],
                        Err(BackendError(FALSE, "create_collection")), obs[t])
                /\ UNCHANGED backendVars
        /\ UNCHANGED <<cfg, pipeVars, adapterVars>>

\* a backend that keeps the points of a collection it deletes
DroppedPointsKept(stored) == stored

\* backend: the points left of a collection that delete_collection removed
DroppedPoints(stored) == NoPoints

\* client.delete_collection(name) answers task t (ok), or raises
DropAnswers(t, ok) ==
    LET o == op[t]
    IN  /\ pc[t] = "be_dropcoll"
        /\ ok => BackendUp
        /\ IF ok
           THEN /\ colls'  = colls \ {o.coll}
                /\ csize'  = [csize EXCEPT ![o.coll] = 0]
                /\ points' = [points EXCEPT ![o.coll] = DroppedPoints(@)]
                /\ Task(t, "done", o, em[t],
                        Ok(DropCollectionResponse(o.coll, TRUE)), obs[t])
           ELSE /\ Task(t, "done", o, em[t],
                        Err(BackendError(FALSE, "delete_collection")), obs[t])
                /\ UNCHANGED backendVars
        /\ UNCHANGED <<cfg, pipeVars, adapterVars>>

\* a backend that stores vectors of any length
AcceptsAny(c, items) == c \in colls

\* the backend accepts a write of `items` into collection c
Accepts(c, items) ==
    /\ c \in colls
    /\ \A j \in 1..Len(items) : Len(Get(items[j].embedding)) = csize[c]

\* client.upsert(collection_name, points, wait=True) answers task t (ok), or raises
UpsertAnswers(t, ok) ==
    LET o == op[t]
    IN  /\ pc[t] = "be_upsert"
        /\ ok => (BackendUp /\ Accepts(o.coll, o.items))
        /\ IF ok
           THEN /\ points' = [points EXCEPT ![o.coll] =
                                StoreAll(@, IdsOf(o.items),
                                         [j \in 1..Len(o.items) |-> PointOf(o.items[j])])]
                /\ Task(t, "done", o, em[t], Ok(IdsOf(o.items)), obs[t])
           ELSE /\ Task(t, "done", o, em[t], Err(BackendError(TRUE, "upsert")), obs[t])
                /\ UNCHANGED points
        /\ UNCHANGED <<cfg, pipeVars, adapterVars, colls, csize>>

\* a delete that hands only the first id to the backend
PointsSelectorFirst(ids) == <<Head(ids)>>

\* points_selector=PointIdsList(points=request.ids)
PointsSelector(ids) == ids

\* a delete that reports the ids in another order than the request's
DeletedIdsReversed(ids) == [j \in 1..Len(ids) |-> ids[Len(ids) + 1 - j]]

\* DeleteResponse(deleted_ids=request.ids)
DeletedIds(ids) == ids

\* client.delete(collection_name, PointIdsList(ids), wait=True) answers, or raises
DeleteAnswers(t, ok) ==
    LET o == op[t]
    IN  /\ pc[t] = "be_delete"
        /\ ok => (BackendUp /\ o.coll \in colls)
        /\ IF ok
           THEN /\ points' = [points EXCEPT ![o.coll] =
                                RemoveAll(@, PointsSelector(o.ids))]
                /\ Task(t, "done", o, em[t], Ok(DeletedIds(o.ids)), obs[t])
           ELSE /\ Task(t, "done", o, em[t], Err(BackendError(TRUE, "delete")), obs[t])
                /\ UNCHANGED points
        /\ UNCHANGED <<cfg, pipeVars, adapterVars, colls, csize>>

\* a query that leaves out the hits whose record has an expires_at
QueryResultsUnexpired(hits) ==
    LET Unexpired(h) == "expires_at" \notin DOMAIN h.payload
        kept == SelectSeq(hits, Unexpired)
    IN  [j \in 1..Len(kept) |->
            [item  |-> PayloadToItem(kept[j].id, kept[j].payload, kept[j].vector),
             score |-> kept[j].score]]

\* a query that returns the hits last first
QueryResultsReversed(hits) ==
    [j \in 1..Len(hits) |->
        [item  |-> PayloadToItem(hits[Len(hits) + 1 - j].id,
                                 hits[Len(hits) + 1 - j].payload,
                                 hits[Len(hits) + 1 - j].vector),
         score |-> hits[Len(hits) + 1 - j].score]]

\* QueryResult(item=_payload_to_item(...), score=hit.score) for every hit
QueryResults(hits) ==
    [j \in 1..Len(hits) |->
        [item  |-> PayloadToItem(hits[j].id, hits[j].payload, hits[j].vector),
         score |-> hits[j].score]]

\* a search that asks the backend for every point whatever n_results says
SearchLimitAll(n_results) == Cardinality(Ids)

\* client.search(..., limit=request.n_results, ...)
SearchLimit(n_results) == n_results

\* FieldCondition(key=k, match=MatchValue(value=v))
FieldCondition(k, v) == [key |-> k, match |-> [value |-> v]]

\* a query that hands no filter to the backend whatever the request holds
QdrantFilterNone(where) == None

\* query: `qdrant_filter = None; if request.where: ... Filter(must=[...])`
QdrantFilter(where) ==
    IF where = None \/ Get(where) = <<>> THEN None
    ELSE Some([must |-> [j \in 1..Len(Get(where)) |->
                            FieldCondition(Get(where)[j][1], Get(where)[j][2])]])

\* the hit lists client.search may hand to task t
SearchHits(t) ==
    IF pc[t] = "be_search" /\ op[t].coll \in colls
    THEN HitListsMatching(op[t].coll, First(em[t].acc).value,
                          SearchLimit(op[t].n), QdrantFilter(op[t].where))
    ELSE {}

\* client.search(...) answers task t with its hits
SearchAnswers(t, hits) ==
    /\ pc[t] = "be_search"
    /\ BackendUp /\ op[t].coll \in colls
    /\ hits \in SearchHits(t)
    /\ Task(t, "done", op[t], em[t], Ok(QueryResults(hits)), obs[t])
    /\ UNCHANGED <<cfg, pipeVars, adapterVars, backendVars>>

\* client.search(...) raises
SearchFails(t) ==
    /\ pc[t] = "be_search"
    /\ Task(t, "done", op[t], em[t], Err(BackendError(TRUE, "search")), obs[t])
    /\ UNCHANGED <<cfg, pipeVars, adapterVars, backendVars>>

-----------------------------------------------------------------------------
(* Specifications *)

SeqsUpTo(S, n) == UNION {[1..m -> S] : m \in 0..n}

Config(provider, batch_size, dimensions) ==
    [provider |-> provider, model |-> MODEL, batch_size |-> batch_size,
     dimensions |-> dimensions]

\* QdrantAdapter.__init__ / EmbeddingClient.__init__ under configuration c
InitWith(c) ==
    /\ cfg = c
    /\ http = FALSE
    /\ httpLive = 0
    /\ client = "none"
    /\ vector_size = c.dimensions
    /\ colls = {}
    /\ csize = [n \in Names |-> 0]
    /\ points = [n \in Names |-> NoPoints]
    /\ pc = [t \in Tasks |-> "idle"]
    /\ op = [t \in Tasks |-> NoOp]
    /\ em = [t \in Tasks |-> NoEmbed]
    /\ ret = [t \in Tasks |-> NoRet]
    /\ obs = [t \in Tasks |-> NoObs]

\* the batch whose POST task t awaits
Awaited(t) ==
    IF pc[t] = "embed" /\ em[t].st = "wait" THEN {em[t].batches[em[t].k]} ELSE {}

\* the steps of a call in flight inside the embedding pipeline
EmbedSteps(t, statuses) ==
    \/ \E batch \in Awaited(t) :
         \E resp \in {r \in ProviderResponses(cfg.provider, batch) :
                        r.status \in statuses} :
            ProviderAnswers(t, resp)
    \/ BackoffEnds(t)

\* every answer: no answer (0), a client error, a server error, a body
AllStatuses == {0, 400, 503, 200}

(* The adapter under a sequential caller *)

AdapterConfigs ==
    {Config("ollama", MaxItems, None), Config("openai", 1, Some(ProviderDim))}

\* the provider answers explored under the adapter: a body (with or without
\* vectors) or a server error
AdapterStatuses == {200, 503}

\* the collections the caller writes records to
DataNames == {"brain.a"}

UpsertInputs(c) ==
    {[j \in 1..Len(s) |-> NewItem(s[j][1], c, s[j][2])] :
        s \in SeqsUpTo(Ids \X Contents, MaxItems) \ {<<>>}}

Init == \E c \in AdapterConfigs : InitWith(c)

Next ==
    \/ Connect(Caller)
    \/ Close(Caller)
    \/ \E c \in DataNames : \E items \in UpsertInputs(c) : UpsertCall(Caller, c, items)
    \/ \E c \in Names, text \in Contents, n \in 1..MaxResults :
            QueryCall(Caller, c, text, n)
    \/ \E c \in Names : \E ids \in SeqsUpTo(Ids, MaxItems) \ {<<>>} :
            DeleteCall(Caller, c, ids)
    \/ \E c \in Names : CreateCall(Caller, c)
    \/ \E c \in Names : EnsureCall(Caller, c)
    \/ \E c \in Names : DropCall(Caller, c)
    \/ ListCall(Caller)
    \/ EmbedSteps(Caller, AdapterStatuses)
    \/ \E ok \in BOOLEAN : ListingAnswers(Caller, ok)
    \/ \E ok \in BOOLEAN : CreateAnswers(Caller, ok)
    \/ \E ok \in BOOLEAN : DropAnswers(Caller, ok)
    \/ \E ok \in BOOLEAN : UpsertAnswers(Caller, ok)
    \/ \E ok \in BOOLEAN : DeleteAnswers(Caller, ok)
    \/ \E hits \in SearchHits(Caller) : SearchAnswers(Caller, hits)
    \/ SearchFails(Caller)
    \/ Return(Caller)

Spec == Init /\ [][Next]_vars

(* The embedding pipeline alone, called directly *)

EmbedConfigs == {Config(p, b, None) : p \in Providers, b \in 1..MaxBatch}

InitEmbed == \E c \in EmbedConfigs : InitWith(c)

NextEmbed ==
    \/ PipeConnect(Caller)
    \/ PipeClose(Caller)
    \/ \E texts \in SeqsUpTo(Contents, MaxTexts) : EmbedCall(Caller, texts)
    \/ \E text \in Contents : EmbedOneCall(Caller, text)
    \/ EmbedSteps(Caller, AllStatuses)
    \/ Return(Caller)

SpecEmbed == InitEmbed /\ [][NextEmbed]_vars

(* The records of one collection under a sequential caller: items with and
   without expires_at, the dimensionality left to the probe, configured as the
   provider's, or configured wrongly *)

DataConfigs ==
    {Config("ollama", MaxItems, d) :
        d \in {None, Some(ProviderDim), Some(ProviderDim + 1)}}

\* the provider serves the POST of task t: a body with the vectors
ProviderServes(t) ==
    \E batch \in Awaited(t) :
        \E resp \in {r \in ProviderResponses(cfg.provider, batch) :
                        r.status = 200 /\ r.payload # <<>>} :
            ProviderAnswers(t, resp)

DataInputs(c) ==
    {[j \in 1..Len(s) |-> MemoryItem(s[j][1], c, s[j][2], s[j][3])] :
        s \in SeqsUpTo(Ids \X Contents \X Expiries, MaxItems) \ {<<>>}}

InitData == \E c \in DataConfigs : InitWith(c)

NextData ==
    \/ Connect(Caller)
    \/ \E c \in DataNames : \E items \in DataInputs(c) : UpsertCall(Caller, c, items)
    \/ \E c \in DataNames, text \in Contents, n \in 1..MaxResults :
            QueryCall(Caller, c, text, n)
    \/ \E c \in DataNames : \E ids \in SeqsUpTo(Ids, MaxItems) \ {<<>>} :
            DeleteCall(Caller, c, ids)
    \/ \E c \in DataNames : CreateCall(Caller, c)
    \/ \E c \in DataNames : DropCall(Caller, c)
    \/ ListCall(Caller)
    \/ ProviderServes(Caller)
    \/ \E ok \in BOOLEAN : ListingAnswers(Caller, ok)
    \/ \E ok \in BOOLEAN : CreateAnswers(Caller, ok)
    \/ \E ok \in BOOLEAN : DropAnswers(Caller, ok)
    \/ \E ok \in BOOLEAN : UpsertAnswers(Caller, ok)
    \/ \E ok \in BOOLEAN : DeleteAnswers(Caller, ok)
    \/ \E hits \in SearchHits(Caller) : SearchAnswers(Caller, hits)
    \/ SearchFails(Caller)
    \/ Return(Caller)

SpecData == InitData /\ [][NextData]_vars

(* The collection operations under two concurrent callers of one adapter: the
   tasks interleave at their suspension points; the provider serves and the
   backend answers every call as its state commands (it refuses only the
   creation of a collection that exists) *)

ConcConfigs == {Config("ollama", 1, d) : d \in {None, Some(ProviderDim)}}

InitConc == \E c \in ConcConfigs : InitWith(c)

NextConc ==
    \/ Connect(Caller)
    \/ \E t \in Tasks, c \in Names : CreateCall(t, c)
    \/ \E t \in Tasks, c \in Names : DropCall(t, c)
    \/ \E t \in Tasks : ListCall(t)
    \/ \E t \in Tasks : ProviderServes(t)
    \/ \E t \in Tasks : ListingAnswers(t, TRUE)
    \/ \E t \in Tasks : CreateAnswers(t, op[t].coll \notin colls)
    \/ \E t \in Tasks : DropAnswers(t, TRUE)
    \/ \E t \in Tasks : Return(t)

SpecConc == InitConc /\ [][NextConc]_vars

(* The lifecycle: one caller that uses the adapter through async with, before
   it, inside it and after it, with calls failing and being cancelled *)

LifeConfigs == {Config("ollama", 1, None)}

\* the item lists and the one text the caller of this specification uses
LifeInputs(c) ==
    {<<NewItem("i1", c, "t1")>>, <<NewItem("i1", c, "t1"), NewItem("i2", c, "t2")>>}
LifeTexts     == {"t1"}

InitLife == \E c \in LifeConfigs : InitWith(c)

NextLife ==
    \/ Enter
    \/ Exit
    \/ \E c \in DataNames : \E items \in LifeInputs(c) : UpsertCall(Caller, c, items)
    \/ \E c \in DataNames, text \in LifeTexts : QueryCall(Caller, c, text, 1)
    \/ \E c \in DataNames : \E items \in LifeInputs(c) :
            DeleteCall(Caller, c, IdsOf(items))
    \/ \E c \in DataNames : CreateCall(Caller, c)
    \/ \E c \in DataNames : DropCall(Caller, c)
    \/ ListCall(Caller)
    \/ EmbedSteps(Caller, AdapterStatuses)
    \/ \E ok \in BOOLEAN : ListingAnswers(Caller, ok)
    \/ \E ok \in BOOLEAN : CreateAnswers(Caller, ok)
    \/ \E ok \in BOOLEAN : DropAnswers(Caller, ok)
    \/ \E ok \in BOOLEAN : UpsertAnswers(Caller, ok)
    \/ \E ok \in BOOLEAN : DeleteAnswers(Caller, ok)
    \/ \E hits \in SearchHits(Caller) : SearchAnswers(Caller, hits)
    \/ SearchFails(Caller)
    \/ Cancel(Caller)
    \/ Return(Caller)

SpecLife == InitLife /\ [][NextLife]_vars

(* Construction of the models from candidate names and contents, and the
   upsert of the items that construction lets through (on a backend without
   collections, which refuses the write) *)

ModelsConfigs == {Config("ollama", 1, Some(ProviderDim))}

InitModels == \E c \in ModelsConfigs : InitWith(c)

\* the caller constructs a model from a candidate name and a candidate text
ConstructAny(t) ==
    /\ Idle(t)
    /\ \E kind \in ModelKinds, name \in CandidateNames, text \in CandidateContents :
            Construct(t, kind, name, text)

\* the caller upserts a Memory Item it was able to construct
UpsertConstructed(t) ==
    /\ Idle(t)
    /\ \E c \in DataNames : \E item \in ConstructibleItems("i1") :
            UpsertCall(t, c, <<item>>)

NextModels ==
    \/ ConstructAny(Caller)
    \/ Connect(Caller)
    \/ UpsertConstructed(Caller)
    \/ ProviderServes(Caller)
    \/ UpsertAnswers(Caller, Accepts(op[Caller].coll, op[Caller].items))
    \/ Return(Caller)

SpecModels == InitModels /\ [][NextModels]_vars

-----------------------------------------------------------------------------
(* Queries with filters: one collection, items that carry either collection
   name, queries with an equality map and a content filter, a provider and a
   backend that serve *)

FilterConfigs == {Config("ollama", MaxItems, None)}

\* the (key, value) pairs of the equality maps of this specification
WherePairs == ({"collection_name"} \X Names) \cup ({"content"} \X Contents)

\* the `where` arguments: none, the empty map, maps of one key and of two
Wheres ==
    {None} \cup {Some(w) : w \in {v \in SeqsUpTo(WherePairs, 2) :
                    \A j, l \in 1..Len(v) : v[j][1] = v[l][1] => j = l}}

\* the `where_document` arguments
WhereDocuments == {None} \cup {Some(text) : text \in Contents}

FilterInputs ==
    {[j \in 1..Len(s) |-> NewItem(s[j][1], s[j][2], s[j][3])] :
        s \in SeqsUpTo(Ids \X Names \X Contents, MaxItems) \ {<<>>}}

InitFilter == \E c \in FilterConfigs : InitWith(c)

\* the caller upserts items into the collection
UpsertAny(t) ==
    /\ Idle(t)
    /\ \E c \in DataNames : \E items \in FilterInputs : UpsertCall(t, c, items)

\* the caller queries the collection
QueryAny(t) ==
    /\ Idle(t)
    /\ \E c \in DataNames, n \in 1..MaxResults, where \in Wheres,
          where_document \in WhereDocuments :
            QueryWhereCall(t, c, "t1", n, where, where_document)

NextFilter ==
    \/ Connect(Caller)
    \/ \E c \in DataNames : CreateCall(Caller, c)
    \/ UpsertAny(Caller)
    \/ QueryAny(Caller)
    \/ ProviderServes(Caller)
    \/ ListingAnswers(Caller, TRUE)
    \/ CreateAnswers(Caller, TRUE)
    \/ UpsertAnswers(Caller, Accepts(op[Caller].coll, op[Caller].items))
    \/ \E hits \in SearchHits(Caller) : SearchAnswers(Caller, hits)
    \/ SearchFails(Caller)
    \/ Return(Caller)

SpecFilter == InitFilter /\ [][NextFilter]_vars

-----------------------------------------------------------------------------
(* Properties *)

DataOps == {"upsert", "query", "delete", "create", "drop", "list"}

Done(t)   == pc[t] = "done"
Failed(t) == Done(t) /\ ret[t].status = "error"
Passed(t) == Done(t) /\ ret[t].status = "ok"

\* C1: whenever a data operation is entered on a disconnected adapter (never
\* connected, or closed after having been connected) it has ended at once
\* with a non-retryable adapter error, having made no implicit connect, no
\* provider request and no backend call.
C1_DisconnectedFailsAtOnce ==
    (op[Caller].name \in DataOps /\ obs[Caller].client0 # "open") =>
        /\ Failed(Caller)
        /\ ret[Caller].err.kind = "AdapterError"
        /\ ~ret[Caller].err.retryable
        /\ obs[Caller].be = <<>>
        /\ em[Caller] = NoEmbed
        /\ http = obs[Caller].http0 /\ httpLive = obs[Caller].live0

\* C2: a batch attempt that failed permanently (an EmbeddingError with
\* retryable = FALSE) is the only POST of its batch and ends the embed call;
\* a re-attempt is only ever scheduled after a retryable EmbeddingError.
C2_PermanentFailureNotRetried ==
    /\ (em[Caller].lastErr.kind = "EmbeddingError" /\ ~em[Caller].lastErr.retryable) =>
            (em[Caller].st = "raise" /\ em[Caller].posts = 1 /\ Failed(Caller))
    /\ em[Caller].st = "sleep" =>
            (em[Caller].lastErr.kind = "EmbeddingError" /\ em[Caller].lastErr.retryable)

\* C3: no batch is POSTed more than MaxAttempts (3) times; every attempt that
\* returned vectors closed its batch (the batches before the current one, and
\* all of them at the return, succeeded exactly once); and when the third
\* attempt of a batch has failed, embed has raised to its caller.
C3_AtMostThreeAttempts ==
    LET e == em[Caller]
    IN  /\ e.posts <= MaxAttempts /\ e.attempt <= MaxAttempts
        /\ e.st \in {"wait", "sleep", "raise"} => e.oks = e.k - 1
        /\ e.st = "return" => e.oks = Len(e.batches)
        /\ (e.lastErr # NoError /\ e.posts = MaxAttempts /\ e.st # "wait") =>
                (e.st = "raise" /\ Failed(Caller) /\ ret[Caller].err = e.lastErr)
        /\ e.st = "raise" => (e.attempt = MaxAttempts /\ Failed(Caller))

C3_Witness ==
    /\ em[Caller].st = "raise" /\ em[Caller].posts = MaxAttempts
    /\ em[Caller].k = 2 /\ em[Caller].oks = 1
    /\ Failed(Caller)

\* C4: a successful embed(T) returns exactly Len(T) vectors, the i-th being the
\* provider's vector for T[i]; a successful embed_one(t) returns the vector of t.
C4_EmbedPreservesOrder ==
    /\ (op[Caller].name = "embed" /\ Passed(Caller)) =>
            /\ Len(ret[Caller].value) = Len(em[Caller].texts)
            /\ \A i \in 1..Len(em[Caller].texts) :
                    ret[Caller].value[i] = Vec(em[Caller].texts[i])
    /\ (op[Caller].name = "embed_one" /\ Passed(Caller)) =>
            ret[Caller].value = Vec(op[Caller].text)

\* C5: embed([]) has returned [] as soon as it is entered, having issued no
\* provider request and left the pipeline's connection as it was, whether the
\* pipeline was connected or not.
C5_EmbedEmptyIsNoop ==
    (op[Caller].name = "embed" /\ em[Caller].texts = <<>>) =>
        /\ Passed(Caller)
        /\ ret[Caller].value = <<>>
        /\ em[Caller].posts = 0
        /\ http = obs[Caller].http0 /\ httpLive = obs[Caller].live0

C5_Witness ==
    /\ op[Caller].name = "embed" /\ em[Caller].texts = <<>> /\ Passed(Caller)
    /\ ~http /\ httpLive = 1

\* C6: whatever makes embed or embed_one fail, the caller gets an
\* EmbeddingError carrying the provider's identity.
C6_OnlyEmbeddingErrorEscapes ==
    (op[Caller].name \in {"embed", "embed_one"} /\ Failed(Caller)) =>
        (ret[Caller].err.kind = "EmbeddingError" /\ ret[Caller].err.origin # "")

\* C7: a create_collection that returned normally reports created = TRUE
\* exactly when the name did not exist, and the collection exists afterwards;
\* on an existing name (as after a first call that returned created = TRUE) it
\* has only listed the collections: no backend create call, no probe of the
\* embedding pipeline, the collection's records and vector size and the
\* adapter's cached size unchanged; and nothing is raised on account of the
\* name existing (the only failure left is the listing itself failing).
C7_CreateTwice ==
    LET o == op[Caller]
        b == obs[Caller]
    IN  (o.name = "create" /\ Done(Caller)) =>
            /\ Passed(Caller) =>
                    /\ ret[Caller].value.created = ~b.existed
                    /\ o.coll \in colls
            /\ b.existed =>
                    /\ b.be = <<"get_collections">>
                    /\ em[Caller] = NoEmbed
                    /\ points[o.coll] = b.pts0 /\ csize[o.coll] = b.size0
                    /\ vector_size = b.vs0
                    /\ Failed(Caller) =>
                            ret[Caller].err = BackendError(TRUE, "get_collections")

C7_Witness ==
    /\ op[Caller].name = "create" /\ Passed(Caller)
    /\ obs[Caller].existed /\ ~ret[Caller].value.created
    /\ Stored(op[Caller].coll) # {}

\* C8: a drop_collection that returned normally reports dropped = TRUE exactly
\* when the name existed, and the collection is gone afterwards; on a missing
\* name it has only listed the collections (no backend delete-collection
\* call), changed nothing, and raised nothing on account of the name missing.
C8_DropMissing ==
    LET o == op[Caller]
        b == obs[Caller]
    IN  (o.name = "drop" /\ Done(Caller)) =>
            /\ Passed(Caller) =>
                    /\ ret[Caller].value.dropped = b.existed
                    /\ o.coll \notin colls
            /\ (~b.existed /\ b.client0 # "none") =>
                    /\ b.be = <<"get_collections">>
                    /\ Failed(Caller) =>
                            ret[Caller].err = BackendError(TRUE, "get_collections")

C8_Witness ==
    /\ op[Caller].name = "drop" /\ Passed(Caller)
    /\ ~obs[Caller].existed /\ ~ret[Caller].value.dropped
    /\ colls # {}

\* C9: ensure_collection invokes create_collection once and returns its created
\* flag: TRUE exactly when the name did not exist (as after a drop), the
\* collection existing afterwards, so that later calls return FALSE; and a
\* collection only ever disappears by a drop_collection of its name.
C9_Ensure ==
    LET o == op[Caller]
        b == obs[Caller]
    IN  (o.name = "ensure" /\ Done(Caller)) =>
            /\ b.creates = 1
            /\ Passed(Caller) =>
                    /\ ret[Caller].value = ~b.existed
                    /\ ret[Caller].value = ("create_collection" \in Range(b.be))
                    /\ o.coll \in colls

C9_EnsureCollection ==
    /\ []C9_Ensure
    /\ [][\A c \in Names :
            (c \in colls /\ c \notin colls') =>
                (op[Caller].name = "drop" /\ op[Caller].coll = c /\ Passed(Caller)')]_vars

C9_Witness ==
    /\ op[Caller].name = "ensure" /\ Passed(Caller)
    /\ obs[Caller].existed /\ ret[Caller].value = FALSE
    /\ vector_size # None

\* C10: after a successful upsert every input item carries the vector of its
\* own content and the configured model name, nothing else of it has changed,
\* and upserted_ids are the ids of the input items in request order.
C10_UpsertAttaches ==
    LET o == op[Caller]
        b == obs[Caller]
    IN  (o.name = "upsert" /\ Passed(Caller)) =>
            /\ Len(o.items) = Len(b.items0)
            /\ \A j \in 1..Len(b.items0) :
                    o.items[j] = [b.items0[j] EXCEPT
                                    !.embedding = Some(Vec(b.items0[j].content)),
                                    !.embedding_model = Some(cfg.model)]
            /\ ret[Caller].value = IdsOf(b.items0)
            /\ Len(ret[Caller].value) = Len(b.items0)

C10_Witness ==
    /\ op[Caller].name = "upsert" /\ Passed(Caller)
    /\ Len(op[Caller].items) = 2
    /\ op[Caller].items[1].content # op[Caller].items[2].content
    /\ op[Caller].items[1].id # op[Caller].items[2].id

LastOfId(items) ==
    {j \in 1..Len(items) : \A k \in (j + 1)..Len(items) : items[k].id # items[j].id}

\* C12: after a successful upsert the record stored under each upserted id is
\* the point built from the upserted item alone, whatever was stored under
\* that id before, and reading it back gives that item field for field
\* (a field the item leaves null is null); a query returns at most one result
\* per id and each result is the stored record read back.
C12_ReupsertReplaces ==
    LET o == op[Caller]
    IN  /\ (o.name = "upsert" /\ Passed(Caller)) =>
                \A j \in LastOfId(o.items) :
                    LET item == o.items[j]
                    IN  /\ points[o.coll][item.id] = Some(PointOf(item))
                        /\ PayloadToItem(item.id, PointOf(item).payload,
                                         PointOf(item).vector) = item
        /\ (o.name = "query" /\ Passed(Caller)) =>
                LET rs == ret[Caller].value
                IN  \A j \in 1..Len(rs) :
                        LET i == rs[j].item.id
                        IN  /\ points[o.coll][i] # None
                            /\ rs[j].item =
                                 PayloadToItem(i, Get(points[o.coll][i]).payload,
                                               Get(points[o.coll][i]).vector)
                            /\ \A k \in 1..Len(rs) : rs[k].item.id = i => k = j

\* B (expires_at null, another content) has replaced A (expires_at set)
C12_Witness ==
    LET o == op[Caller]
        b == obs[Caller]
    IN  /\ o.name = "upsert" /\ Passed(Caller) /\ Len(o.items) = 1
        /\ b.pts0[o.items[1].id] # None
        /\ "expires_at" \in DOMAIN Get(b.pts0[o.items[1].id]).payload
        /\ Get(b.pts0[o.items[1].id]).payload["content"] # o.items[1].content
        /\ o.items[1].expires_at = None

\* C13: a successful delete leaves none of its ids stored; a query returns
\* only ids stored in the collection it searched; and an id that is not stored
\* in a collection becomes stored there only by an upsert of that id into it.
\* Hence no query returns a deleted id until it is upserted again.
C13_DeleteThenQuery ==
    LET o == op[Caller]
    IN  /\ (o.name = "delete" /\ Passed(Caller)) =>
                \A x \in Range(o.ids) : points[o.coll][x] = None
        /\ (o.name = "query" /\ Passed(Caller)) =>
                \A j \in 1..Len(ret[Caller].value) :
                    points[o.coll][ret[Caller].value[j].item.id] # None

C13_OnlyUpsertStores ==
    \A c \in Names, x \in Ids :
        (points[c][x] = None /\ points'[c][x] # None) =>
            /\ op[Caller].name = "upsert" /\ op[Caller].coll = c
            /\ x \in Range(IdsOf(op[Caller].items))

C13_DeletedStaysGone == []C13_DeleteThenQuery /\ [][C13_OnlyUpsertStores]_vars

\* a stored record has been deleted while another one stays stored
C13_Witness ==
    LET o == op[Caller]
    IN  /\ o.name = "delete" /\ Passed(Caller)
        /\ \E x \in Range(o.ids) : obs[Caller].pts0[x] # None
        /\ Stored(o.coll) # {}

\* C14: a successful delete returns exactly the ids of the request, in request
\* order, whether or not they were stored; the records stored under other ids
\* are unchanged, so that deleting a never-upserted id changes nothing.
C14_DeleteIsLenient ==
    LET o == op[Caller]
    IN  (o.name = "delete" /\ Passed(Caller)) =>
            /\ ret[Caller].value = o.ids
            /\ \A i \in Ids \ Range(o.ids) : points[o.coll][i] = obs[Caller].pts0[i]
            /\ (\A x \in Range(o.ids) : obs[Caller].pts0[x] = None) =>
                    points[o.coll] = obs[Caller].pts0

\* two ids deleted, of which one at least was never stored
C14_Witness ==
    LET o == op[Caller]
    IN  /\ o.name = "delete" /\ Passed(Caller)
        /\ Len(o.ids) = 2 /\ o.ids[1] # o.ids[2]
        /\ \E x \in Range(o.ids) : obs[Caller].pts0[x] = None

NonIncreasing(results) ==
    \A k \in 1..(Len(results) - 1) : results[k].score >= results[k + 1].score

\* C15 as stated: the results of a query are ordered by non-increasing score
\* whatever order the backend hands its hits in, i.e. for every order of the
\* stored points in the answer to the search in flight.
C15_SortedWhateverBackendOrder ==
    LET o == op[Caller]
    IN  (pc[Caller] = "be_search" /\ o.coll \in colls) =>
            \A p \in Perms(Stored(o.coll)) :
                NonIncreasing(QueryResults(
                    [j \in 1..Len(p) |-> Hit(o.coll, p[j], First(em[Caller].acc).value)]))

\* C15, amended: the results of a query are the hits of the backend in the
\* order the backend handed them in, one result per hit; as the backend ranks
\* its hits best first, adjacent results have non-increasing scores.
C15_SortedAsBackendRanks ==
    LET o == op[Caller]
    IN  (o.name = "query" /\ Passed(Caller)) =>
            /\ \E hits \in HitLists(o.coll, First(em[Caller].acc).value,
                                    SearchLimit(o.n)) :
                    /\ Len(ret[Caller].value) = Len(hits)
                    /\ \A j \in 1..Len(hits) :
                            /\ ret[Caller].value[j].item.id = hits[j].id
                            /\ ret[Caller].value[j].score = hits[j].score
            /\ NonIncreasing(ret[Caller].value)

C15_Witness ==
    /\ op[Caller].name = "query" /\ Passed(Caller)
    /\ Len(ret[Caller].value) = 2
    /\ ret[Caller].value[1].score > ret[Caller].value[2].score

\* C16: every score of every query response lies in [0, 1] (scores are in
\* percent here: in 0..100).
C16_ScoresNormalized ==
    (op[Caller].name = "query" /\ Passed(Caller)) =>
        \A j \in 1..Len(ret[Caller].value) :
            /\ ret[Caller].value[j].score >= 0
            /\ ret[Caller].value[j].score <= 100

\* C17: a query never returns more than n_results results, and returns exactly
\* n_results when the collection holds at least that many records.
C17_AtMostNResults ==
    LET o == op[Caller]
    IN  (o.name = "query" /\ Passed(Caller)) =>
            /\ Len(ret[Caller].value) <= o.n
            /\ Cardinality(Stored(o.coll)) >= o.n => Len(ret[Caller].value) = o.n
            /\ Cardinality(Stored(o.coll)) < o.n =>
                    Len(ret[Caller].value) = Cardinality(Stored(o.coll))

\* more records stored than asked for
C17_Witness ==
    LET o == op[Caller]
    IN  /\ o.name = "query" /\ Passed(Caller)
        /\ Cardinality(Stored(o.coll)) > o.n
        /\ Len(ret[Caller].value) = o.n

BackendCalls ==
    {"upsert", "search", "delete", "get_collections", "create_collection",
     "delete_collection"}

\* C18: within one operation no backend primitive is called twice, and an
\* operation that ended on a failed backend call ended on the last call it
\* issued (nothing was attempted after the failure) with an adapter error
\* carrying the backend identity and a retryable flag.
C18_BackendFailureSurfaces ==
    LET b == obs[Caller]
        e == ret[Caller].err
    IN  /\ \A j, k \in 1..Len(b.be) : b.be[j] = b.be[k] => j = k
        /\ Range(b.be) \subseteq BackendCalls
        /\ (Failed(Caller) /\ e.what \in BackendCalls) =>
                /\ e.kind = "AdapterError" /\ e.origin = "qdrant"
                /\ e.retryable \in BOOLEAN
                /\ b.be # <<>> /\ b.be[Len(b.be)] = e.what

\* the second backend call of an operation has failed
C18_Witness ==
    /\ Failed(Caller) /\ op[Caller].name = "create"
    /\ ret[Caller].err.what = "create_collection"
    /\ obs[Caller].be = <<"get_collections", "create_collection">>

\* C19: a stored record ceases to be stored only by a delete naming its id or
\* by a drop of its collection, and a query that asks for at least as many
\* results as there are records returns every stored record, whatever its
\* expires_at, with the expires_at it was stored with.
C19_Removal ==
    \A c \in Names, x \in Ids :
        (points[c][x] # None /\ points'[c][x] = None) =>
            \/ /\ op[Caller].name = "delete" /\ op[Caller].coll = c
               /\ x \in Range(op[Caller].ids)
            \/ op[Caller].name = "drop" /\ op[Caller].coll = c

C19_NothingHidden ==
    LET o  == op[Caller]
        rs == ret[Caller].value
    IN  (o.name = "query" /\ Passed(Caller)) =>
            /\ \A j \in 1..Len(rs) :
                    /\ points[o.coll][rs[j].item.id] # None
                    /\ rs[j].item.expires_at =
                            PayloadToItem(rs[j].item.id,
                                          Get(points[o.coll][rs[j].item.id]).payload,
                                          <<>>).expires_at
            /\ Cardinality({i \in Ids : points[o.coll][i] # None}) <= o.n =>
                    {rs[j].item.id : j \in 1..Len(rs)}
                        = {i \in Ids : points[o.coll][i] # None}

C19_NoImplicitExpiry == []C19_NothingHidden /\ [][C19_Removal]_vars

\* a query has returned a record whose expires_at is past
C19_Witness ==
    /\ op[Caller].name = "query" /\ Passed(Caller)
    /\ \E j \in 1..Len(ret[Caller].value) :
            ret[Caller].value[j].item.expires_at # None

\* C20: connect on an already-connected pipeline keeps the existing client and
\* creates no second one; the pipeline never has more than one unreleased
\* client.
C20_ConnectTwiceIsNoop ==
    /\ httpLive <= 1
    /\ (op[Caller].name = "pipe_connect" /\ Done(Caller) /\ obs[Caller].http0) =>
            httpLive = obs[Caller].live0

Ceil(n, b) == (n + b - 1) \div b

RECURSIVE Flatten(_)
Flatten(seqs) == IF seqs = <<>> THEN <<>> ELSE Head(seqs) \o Flatten(Tail(seqs))

\* C28: an embed of n >= 1 texts under batch size b works on ceil(n/b)
\* consecutive batches, each of b texts but the last, which has between 1 and
\* b; the batches laid end to end are the input; and a call in which no
\* attempt failed has made one provider request per batch when it returns.
C28_BatchPartition ==
    LET e == em[Caller]
        n == Len(e.texts)
        b == cfg.batch_size
    IN  (e.st # "off" /\ n >= 1) =>
            /\ Len(e.batches) = Ceil(n, b)
            /\ \A j \in 1..(Len(e.batches) - 1) : Len(e.batches[j]) = b
            /\ Len(e.batches[Len(e.batches)]) \in 1..b
            /\ Flatten(e.batches) = e.texts
            /\ (e.st = "return" /\ e.clean) =>
                    /\ e.oks = Ceil(n, b)
                    /\ e.k = Ceil(n, b) /\ e.posts = 1

\* three texts under batch size two: a full batch and a shorter last one
C28_Witness ==
    LET e == em[Caller]
    IN  /\ e.st = "return" /\ e.clean /\ Passed(Caller)
        /\ Len(e.texts) = 3 /\ cfg.batch_size = 2
        /\ Len(e.batches) = 2 /\ Len(e.batches[2]) = 1

\* a step of the embed call in which a batch request is sent to the provider
PostIssued(t) ==
    /\ em'[t].st = "wait"
    /\ \/ em[t].st # "wait"
       \/ em'[t].k # em[t].k
       \/ em'[t].posts # em[t].posts

\* C29: a batch request is sent only when no other is awaiting its answer: at
\* the start of the call, after the back-off that follows a failed attempt of
\* the same batch, or in the step in which the answer to the previous batch
\* arrived with its vectors (and then for the next batch, first attempt).
C29_OneRequestInFlight ==
    [][PostIssued(Caller) =>
          LET e == em[Caller]
              f == em'[Caller]
          IN  \/ e.st = "off" /\ f.k = 1 /\ f.attempt = 1
              \/ e.st = "sleep" /\ f.k = e.k /\ f.attempt = e.attempt
                                /\ f.oks = e.oks /\ f.posts = e.posts + 1
              \/ e.st = "wait" /\ f.k = e.k + 1 /\ f.attempt = 1
                               /\ f.oks = e.oks + 1 /\ f.posts = 1]_vars

\* the second attempt of the second batch awaits its answer, the first batch
\* having succeeded
C29_Witness ==
    LET e == em[Caller]
    IN  e.st = "wait" /\ e.k = 2 /\ e.attempt = 2 /\ e.oks = 1 /\ e.posts = 2

\* C30: every batch attempt that embed took as a success delivered one vector
\* per text of its batch, so an answer with success status and no vectors is
\* never taken as a success: the vectors accumulated are as many as the texts
\* of the batches completed, and a returned embed holds one vector per text.
C30_EmptyAnswerFails ==
    LET e == em[Caller]
    IN  e.st # "off" =>
            /\ Len(e.acc) = Len(Flatten(SubSeq(e.batches, 1, e.oks)))
            /\ e.st = "return" => Len(e.acc) = Len(e.texts)

\* task t ends an operation normally in this step
Passes(t) == pc[t] # "done" /\ pc'[t] = "done" /\ ret'[t].status = "ok"

\* C25: the set of collections changes only when a create_collection (or an
\* ensure_collection) returns created = TRUE, which adds its name, or a
\* drop_collection returns dropped = TRUE, which removes its name; and a
\* list_collections that returns lists exactly the names present then, that
\* is, the names created and not dropped since.
C25_ListIsCreatedMinusDropped ==
    [][/\ \A t \in Tasks : Passes(t) =>
            /\ op'[t].name = "list" =>
                    /\ {i.name : i \in ret'[t].value} = colls'
                    /\ colls' = colls
            /\ (op'[t].name = "create" /\ ret'[t].value.created) =>
                    (op'[t].coll \notin colls /\ colls' = colls \cup {op'[t].coll})
            /\ (op'[t].name = "ensure" /\ ret'[t].value) =>
                    (op'[t].coll \notin colls /\ colls' = colls \cup {op'[t].coll})
            /\ (op'[t].name = "drop" /\ ret'[t].value.dropped) =>
                    (op'[t].coll \in colls /\ colls' = colls \ {op'[t].coll})
       /\ colls' # colls => \E t \in Tasks :
            /\ Passes(t)
            /\ \/ op'[t].name = "create" /\ ret'[t].value.created
               \/ op'[t].name = "ensure" /\ ret'[t].value
               \/ op'[t].name = "drop" /\ ret'[t].value.dropped]_vars

\* after both names were created and one of them dropped, list_collections
\* has returned the other one alone
C25_Witness ==
    /\ op[Caller].name = "list" /\ Passed(Caller)
    /\ colls = {"brain.b"}
    /\ ret[Caller].value = {CollectionInfo("brain.b")}

\* task t stands in the dimensionality probe of a create_collection
Probing(t) == pc[t] = "embed" /\ op[t].name \in {"create", "ensure"}

\* C26: when two create_collection calls for one name on the connected
\* adapter, entered while the name did not exist, have both ended, neither has
\* raised,
\* exactly one has returned created = TRUE and the collection exists.
C26_ConcurrentCreate ==
    \A t, u \in Tasks :
        (/\ t # u
         /\ Done(t) /\ Done(u)
         /\ op[t].name = "create" /\ op[u].name = "create"
         /\ op[t].coll = op[u].coll
         /\ obs[t].client0 = "open" /\ obs[u].client0 = "open"
         /\ ~obs[t].existed /\ ~obs[u].existed) =>
            /\ Passed(t) /\ Passed(u)
            /\ ret[t].value.created # ret[u].value.created
            /\ op[t].coll \in colls

\* C27: at no moment are two dimensionality probes under way, a probe is
\* under way only while no dimensionality is configured or cached, and all
\* the collections created have the same vector size.
C27_ProbedAtMostOnce ==
    /\ Cardinality({t \in Tasks : Probing(t)}) <= 1
    /\ \A t \in Tasks : Probing(t) => (cfg.dimensions = None /\ vector_size = None)
    /\ \A c, d \in colls : csize[c] = csize[d]

\* C23: the backend client handle and the pipeline's client handle change
\* only in a connect or a close (here the entry and the exit of the scoped
\* acquisition): no step of an operation, be it a call, an answer, a failure
\* or a cancellation, closes or replaces either of them.
C23_OnlyConnectAndCloseChangeHandles ==
    [][(client' # client \/ http' # http \/ httpLive' # httpLive) =>
            obs'[Scope].life # obs[Scope].life]_vars

\* C24: the body of the scoped acquisition begins in the step in which
\* connect ran, once; all through the body the adapter is connected and only
\* that connect has run; and the exit, with or without an exception of the
\* body, runs close once and leaves the adapter disconnected.
C24_ScopedAcquisition ==
    /\ [](pc[Scope] = "body" =>
            (obs[Scope].life = <<"connect">> /\ client = "open" /\ http))
    /\ [][(pc[Scope] # "body" /\ pc'[Scope] = "body") =>
            (/\ obs'[Scope].life = <<"connect">>
             /\ client' = "open" /\ http' /\ httpLive' = httpLive + 1)]_vars
    /\ [][(pc[Scope] = "body" /\ pc'[Scope] # "body") =>
            (/\ pc'[Scope] = "exited"
             /\ obs'[Scope].life = <<"connect", "close">>
             /\ client' = "closed" /\ ~http' /\ httpLive' = httpLive - 1)]_vars

\* the body raised (a call of it was cancelled) and the exit has closed
C24_Witness ==
    /\ pc[Scope] = "exited" /\ ret[Scope] = Err(Cancelled)
    /\ obs[Scope].life = <<"connect", "close">>
    /\ client = "closed" /\ ~http

\* C21: every Memory Item and every request that has been constructed
\* carries a collection name that is brain\.[a-z][a-z0-9-]* from its first
\* character to its last, and so does every item an upsert has taken to the
\* embedding provider or to the backend.
C21_NamePatternEnforced ==
    /\ (op[Caller].name \in ModelKinds /\ Passed(Caller)) =>
            PatternBody(op[Caller].coll)
    /\ (op[Caller].name = "upsert" /\ pc[Caller] \in {"embed", "be_upsert"}) =>
            \A j \in 1..Len(op[Caller].items) :
                PatternBody(op[Caller].items[j].collection_name)

\* C22: the construction of a Memory Item with empty content has failed with
\* a validation error, and no text that embed is working on is empty.
C22_EmptyContentRejected ==
    /\ (op[Caller].name = "MemoryItem" /\ op[Caller].text = "" /\ Done(Caller)) =>
            (Failed(Caller) /\ ret[Caller].err.kind = "ValidationError")
    /\ pc[Caller] = "embed" => \A j \in 1..Len(em[Caller].texts) :
            em[Caller].texts[j] # ""

\* C31: under the indexed wire shape, whatever the order in which the
\* provider lists the {index, embedding} pairs of the batch awaited, the
\* attempt returns the vectors in ascending index order, the k-th being the
\* vector of the k-th text of the batch; and an embed that has returned one
\* vector per text has returned, at every position, the vector of that text.
C31_IndexedAnswerResorted ==
    LET e == em[Caller]
    IN  cfg.provider = "openai" =>
            /\ \A batch \in Awaited(Caller) : \A o \in Perms(1..Len(batch)) :
                    LET r == EmbedBatchBody(cfg.provider,
                                 [status |-> 200, kind |-> "data",
                                  payload |-> IndexedData(batch, o)])
                    IN  /\ r.ok
                        /\ r.vectors = [j \in 1..Len(batch) |-> Vec(batch[j])]
            /\ (e.st = "return" /\ Len(e.acc) = Len(e.texts)) =>
                    \A i \in 1..Len(e.texts) : e.acc[i] = Vec(e.texts[i])

\* an embed of two different texts in one batch has returned under the
\* indexed shape
C31_Witness ==
    LET e == em[Caller]
    IN  /\ cfg.provider = "openai" /\ cfg.batch_size = 2
        /\ op[Caller].name = "embed" /\ Passed(Caller)
        /\ e.texts = <<"t1", "t2">> /\ e.acc = <<Vec("t1"), Vec("t2")>>

\* C37: when a batch of an embed call has failed for good, the call has
\* raised to its caller with no vectors (not those of the batches before it
\* either), the batches before it are the only ones that succeeded, and no
\* batch request is sent any more.
C37_NoPartialResult ==
    /\ [](em[Caller].st = "raise" =>
            /\ Failed(Caller) /\ ret[Caller].value = <<>>
            /\ ret[Caller].err = em[Caller].lastErr
            /\ em[Caller].oks = em[Caller].k - 1)
    /\ [][em[Caller].st = "raise" =>
            (~PostIssued(Caller) /\ em'[Caller].st \in {"raise", "off"})]_vars

\* the second of three batches has failed, the first having delivered its vector
C37_Witness ==
    LET e == em[Caller]
    IN  /\ e.st = "raise" /\ e.k = 2 /\ Len(e.batches) = 3 /\ Len(e.acc) = 1
        /\ op[Caller].name = "embed" /\ Failed(Caller)

\* the backend calls whose failure the adapter flags retryable
RetryableCalls == {"upsert", "search", "delete", "get_collections"}

\* C39: an operation that ended with an adapter error either had issued no
\* backend call, and then it was refused for want of a connection, flagged
\* non-retryable; or it failed on the last backend call it issued, flagged
\* retryable when that call is the upsert, the search, the point delete or
\* the collection listing (of list_collections, create_collection and
\* drop_collection alike), and non-retryable when it is the collection
\* creation or the collection deletion.
C39_RetryableByStep ==
    LET b == obs[Caller]
        e == ret[Caller].err
    IN  (op[Caller].name \in DataOps /\ Failed(Caller) /\ e.kind = "AdapterError") =>
            /\ e.origin = "qdrant"
            /\ IF b.be = <<>>
               THEN e = NotConnected /\ ~e.retryable /\ b.client0 = "none"
               ELSE /\ e.what = b.be[Len(b.be)]
                    /\ e.what \in BackendCalls
                    /\ e.retryable = (e.what \in RetryableCalls)

\* the listing inside drop_collection has failed: retryable
C39_Witness ==
    /\ op[Caller].name = "drop" /\ Failed(Caller)
    /\ obs[Caller].be = <<"get_collections">>
    /\ ret[Caller].err = AdapterError("qdrant", TRUE, "get_collections")

\* C36: while an upsert is embedding, and when its embedding has failed, no
\* backend call has been issued, and before the backend call the items are
\* as the caller handed them;
\* once the backend write is issued (once only) the embedding has returned
\* and every item carries the vector of its content and the model name, and
\* so it is when that write has failed, nothing being reported as upserted.
C36_EmbedAttachWrite ==
    LET o == op[Caller]
        b == obs[Caller]
        e == em[Caller]
    IN  o.name = "upsert" =>
            /\ pc[Caller] = "embed" => b.be = <<>>
            /\ (e.st = "raise" /\ e.lastErr # Cancelled) =>
                    (b.be = <<>> /\ ~Passed(Caller))
            /\ b.be = <<>> => o.items = b.items0
            /\ b.be # <<>> =>
                    /\ b.be = <<"upsert">>
                    /\ e.st = "return" \/ e.lastErr = Cancelled
                    /\ Len(o.items) = Len(b.items0)
                    /\ \A j \in 1..Len(o.items) :
                            o.items[j] = AttachEmbedding(b.items0[j],
                                            Vec(b.items0[j].content), cfg.model)
            /\ (b.be # <<>> /\ Failed(Caller)) => ret[Caller].value = <<>>

\* the backend write of two items has failed: both carry their embeddings
C36_Witness ==
    LET o == op[Caller]
    IN  /\ o.name = "upsert" /\ Failed(Caller)
        /\ ret[Caller].err = AdapterError("qdrant", TRUE, "upsert")
        /\ Len(o.items) = 2
        /\ o.items[1].embedding = Some(Vec("t1")) /\ o.items[2].embedding = Some(Vec("t2"))
        /\ obs[Caller].items0[2].embedding = None

\* the fields of an item that may be null, id and embedding apart
NullableFields == {"expires_at", "embedding_model"}

\* the payload of `item` holds collection_name and content and exactly the
\* nullable fields that are set, each with the item's value, and the item is
\* rebuilt whole from its id, that payload and its vector
RoundTrips(item) ==
    LET payload == ItemToPayload(item)
    IN  /\ DOMAIN payload = {"collection_name", "content"}
                                \cup {k \in NullableFields : item[k] # None}
        /\ payload.collection_name = item.collection_name
        /\ payload.content = item.content
        /\ \A k \in DOMAIN payload \cap NullableFields : item[k] = Some(payload[k])
        /\ item.embedding # None
        /\ PayloadToItem(item.id, payload, Get(item.embedding)) = item

\* the accepted write of an upsert leaves, under the id of every item of the
\* request, a point from which the last item of that id is rebuilt
C34_Written ==
    LET o == op[Caller]
    IN  (o.name = "upsert" /\ pc[Caller] = "be_upsert" /\ Passed(Caller)')
            => \A j \in 1..Len(o.items) :
                    (\A l \in (j + 1)..Len(o.items) : o.items[l].id # o.items[j].id)
                        => /\ points'[o.coll][o.items[j].id] # None
                           /\ LET p == Get(points'[o.coll][o.items[j].id])
                              IN  PayloadToItem(o.items[j].id, p.payload, p.vector)
                                        = o.items[j]

\* every item a query returns is the one rebuilt from the point stored under
\* its id, and it goes through the payload unchanged
C34_Returned ==
    LET o == op[Caller]
    IN  /\ (o.name = "upsert" /\ pc[Caller] = "be_upsert")
                => \A j \in 1..Len(o.items) : RoundTrips(o.items[j])
        /\ (o.name = "query" /\ Passed(Caller))
                => \A j \in 1..Len(ret[Caller].value) :
                        LET r == ret[Caller].value[j].item
                        IN  /\ points[o.coll][r.id] # None
                            /\ r = PayloadToItem(r.id, Get(points[o.coll][r.id]).payload,
                                                 Get(points[o.coll][r.id]).vector)
                            /\ RoundTrips(r)

\* C34: the payload of a written item holds every field but id and embedding
\* that is not null, the point is stored under the item's id, and the item
\* rebuilt from (point id, payload, vector) equals the written one, so that a
\* query returns the items as they were upserted.
C34_PayloadRoundTrip == []C34_Returned /\ [][C34_Written]_vars

\* a query has returned an item that was written with an expiry
C34_Witness ==
    /\ op[Caller].name = "query" /\ Passed(Caller)
    /\ \E j \in 1..Len(ret[Caller].value) :
            LET r == ret[Caller].value[j].item
            IN  /\ r.expires_at # None /\ r.embedding_model = Some(cfg.model)
                /\ r.embedding = Some(Vec(r.content))

\* a drop that reports dropped=true leaves no record of the collection, and
\* a record comes to be stored in a collection only by an upsert that passes
\* and names it among its items
C35_Step ==
    LET o == op[Caller]
    IN  /\ (o.name = "drop" /\ ~Done(Caller) /\ Passed(Caller)'
                /\ ret'[Caller].value.dropped)
            => (Stored(o.coll)' = {} /\ o.coll \notin colls')
        /\ \A c \in Names : \A i \in Stored(c)' \ Stored(c) :
                /\ o.name = "upsert" /\ o.coll = c /\ Passed(Caller)'
                /\ i \in Range(IdsOf(o.items))

\* a collection that does not exist holds no record, and a query returns
\* stored records only
C35_State ==
    /\ \A c \in Names \ colls : Stored(c) = {}
    /\ (op[Caller].name = "query" /\ Passed(Caller))
            => \A j \in 1..Len(ret[Caller].value) :
                    ret[Caller].value[j].item.id \in Stored(op[Caller].coll)

\* C35: after drop_collection(C) has returned dropped=true no record of C is
\* left, creating C again brings none back, and a query over C returns only
\* records upserted since.
C35_DroppedRecordsGone == []C35_State /\ [][C35_Step]_vars

\* a collection that held records has been dropped
C35_Witness ==
    /\ op[Caller].name = "drop" /\ Passed(Caller)
    /\ ret[Caller].value.dropped
    /\ \E i \in Ids : obs[Caller].pts0[i] # None
    /\ Stored(op[Caller].coll) = {}

\* the (key, value) pairs of the equality map of a query, none without a map
WhereOf(o) == IF o.where = None THEN <<>> ELSE Get(o.where)

\* C32: the filter of a search in flight holds, for a map of n >= 1 keys, n
\* conditions under `must`, one per key of the map with the value of that
\* key, and is no filter at all for no map and for the empty map; every item
\* a query returns holds, under every key of the map, the value of that key,
\* and the stored items that do are returned up to n_results.
C32_WhereIsConjunction ==
    LET o == op[Caller]
        w == WhereOf(o)
        f == QdrantFilter(o.where)
    IN  /\ (o.name = "query" /\ pc[Caller] = "be_search") =>
                IF w = <<>> THEN f = None
                ELSE /\ f # None
                     /\ DOMAIN Get(f) = {"must"}
                     /\ Len(Get(f).must) = Len(w)
                     /\ \A j \in 1..Len(w) :
                            /\ Get(f).must[j] = FieldCondition(w[j][1], w[j][2])
                            /\ \A l \in 1..Len(w) :
                                    Get(f).must[l].key = w[j][1] => l = j
        /\ (o.name = "query" /\ Passed(Caller)) =>
                LET items == [j \in 1..Len(ret[Caller].value) |->
                                    ret[Caller].value[j].item]
                    all == {i \in Stored(o.coll) :
                                \A j \in 1..Len(w) :
                                    PayloadToItem(i, Get(points[o.coll][i]).payload,
                                                  Get(points[o.coll][i]).vector)[w[j][1]]
                                        = w[j][2]}
                IN  /\ \A k \in 1..Len(items) : \A j \in 1..Len(w) :
                            items[k][w[j][1]] = w[j][2]
                    /\ Len(items) = Min(o.n, Cardinality(all))

\* a query with a map of two keys has returned the one stored item that holds
\* both values, and has left out one that holds only the first
C32_Witness ==
    LET o == op[Caller]
    IN  /\ o.name = "query" /\ Passed(Caller)
        /\ o.where = Some(<<<<"collection_name", "brain.a">>, <<"content", "t2">>>>)
        /\ o.n = 2
        /\ Len(ret[Caller].value) = 1
        /\ Cardinality(Stored(o.coll)) = 2
        /\ \A i \in Stored(o.coll) :
                Get(points[o.coll][i]).payload.collection_name = "brain.a"

\* C33: every item returned by a query that carries a content filter has a
\* content that matches the filter text (the contents here are whole words:
\* a content matches the text when it is that text).
C33_ContentFilterApplied ==
    LET o == op[Caller]
    IN  (o.name = "query" /\ Passed(Caller) /\ o.where_document # None) =>
            \A j \in 1..Len(ret[Caller].value) :
                ret[Caller].value[j].item.content = Get(o.where_document)

\* C38: every point stored under collection C carries collection_name = C,
\* and so does every item a query over C returns.
C38_ReturnedUnderOwnCollection ==
    /\ \A c \in Names : \A i \in Stored(c) :
            Get(points[c][i]).payload.collection_name = c
    /\ (op[Caller].name = "query" /\ Passed(Caller)) =>
            \A j \in 1..Len(ret[Caller].value) :
                ret[Caller].value[j].item.collection_name = op[Caller].coll

====
